---- MODULE Spec2Model ----
(***************************************************************************)
(* Per-key resource caches, lock registries and retry policy of the        *)
(* multi-tenant CSV/SQL backend:                                           *)
(*   routes/csv/connect_db.py   engines, locks, get_lock, get_engine,      *)
(*                              get_or_create_database                     *)
(*   routes/csv/sql_agent.py    agent_cache, cache_locks, get_lock,        *)
(*                              get_agent_executor                         *)
(*   routes/csv/csv_router.py   upload_project_locks, get_project_lock,    *)
(*                              upload_data, delete_data                   *)
(*   routes/llm_connections.py  groq_llm, gpt_llm (tenacity retry)         *)
(*                                                                         *)
(* Request threads interleave at every shared-memory access: a lock        *)
(* acquire, a dictionary test, a dictionary store, a backend call.         *)
(***************************************************************************)
EXTENDS Integers, Sequences, FiniteSets, TLC

\* ------------------------------------------------------------------ bounds

\* Requests the worker threads serve in total, one after the other per thread.
MaxRequests == 2

\* RETRY_ATTEMPTS is read from Config; every value 1..MaxAttempts is explored.
MaxAttempts == 2

\* SpecRetry explores every RETRY_ATTEMPTS in 1..MaxPolicyAttempts, and
\* scripts the backend for MaxScript executions of the wrapped body.
MaxPolicyAttempts == 3

MaxScript == 4

\* Config.RETRY_MIN and Config.RETRY_MAX range over 0..MaxWait, and
\* Config.RETRY_MULTIPLIER over 0..MaxMultiplier.
MaxWait == 3

MaxMultiplier == 2

\* ------------------------------------------------------------- vocabulary

Threads == {"t1", "t2"}

\* Config.POSTGRES_DEFAULT_DB ("Typically 'postgres'").
DefaultDb == "postgres"

Projects == {"acme", "globex"}

\* A project id is a request form field: any key, the default database's
\* name included, can arrive as project_id.
Keys == Projects \cup {DefaultDb}

NoThread == "none"
NoKey == "none"
NoHandle == <<>>
NoLock == <<>>

VARIABLES
    RETRY_ATTEMPTS,        \* connect_db.RETRY_ATTEMPTS / llm_connections.RETRY_ATTEMPTS
    RETRY_WAIT,            \* the wait_exponential object: multiplier, min, max
    engines,               \* connect_db.engines: key -> engine handle
    locks,                 \* connect_db.locks: key -> Lock
    db_global_lock,        \* connect_db.global_lock: the thread inside it
    agent_cache,           \* sql_agent.agent_cache: key -> agent executor
    cache_locks,           \* sql_agent.cache_locks: key -> Lock
    agent_global_lock,     \* sql_agent.global_lock
    upload_project_locks,  \* csv_router.upload_project_locks: key -> asyncio.Lock
    router_global_lock,    \* csv_router.global_lock
    held,                  \* every Lock object ever constructed -> its holder
    engine_count,          \* create_engine calls that returned, per key
    agent_count,           \* create_sql_agent calls that returned, per key
    databases,             \* the databases of the Postgres server
    preexisting,           \* the databases of the server at process start
    known,                 \* projects whose SELECT returned a row or whose CREATE succeeded
    create_stmts,          \* CREATE DATABASE statements issued, per project
    connections,           \* per thread: the administrative connection its call opened
    requests,              \* requests taken up by the worker threads so far
    th,                    \* per worker thread: position and locals
    rt,                    \* one retry-wrapped call in isolation (SpecRetry)
    hd,                    \* per request task of csv_router: position and locals
    collection,            \* the MongoDB metadata collection: _id -> document
    bg                     \* background tasks added by handlers that have returned

vars == <<RETRY_ATTEMPTS, RETRY_WAIT, engines, locks, db_global_lock, agent_cache, cache_locks,
          agent_global_lock, upload_project_locks, router_global_lock, held,
          engine_count, agent_count, databases, preexisting, known, create_stmts,
          connections, requests, th, rt, hd, collection, bg>>

shared == <<engines, locks, db_global_lock, agent_cache, cache_locks,
            agent_global_lock, upload_project_locks, router_global_lock, held,
            engine_count, agent_count, databases, known, create_stmts, connections>>

\* What the csv_router handlers and their background tasks write.
router == <<hd, collection, bg>>

\* What only connect_db and sql_agent write.
caches == <<engines, locks, db_global_lock, agent_cache, cache_locks, agent_global_lock,
            engine_count, agent_count, databases, known, create_stmts, connections>>

\* ---------------------------------------------------------------- helpers

\* The membership test left out: every call takes the miss branch.
InCacheNever(cache, k) == FALSE

\* `key in cache` (connect_db.py:34, :53; sql_agent.py:43).
InCache(cache, k) == cache[k] # NoHandle

\* `key not in locks` negated (connect_db.py:24; sql_agent.py:33; csv_router.py:26).
InRegistry(reg, k) == reg[k] # NoLock

\* One dictionary entry shared by every key.
RegistryKeyShared(k) == "acme"

\* The dictionary key a registry stores the lock of `k` under.
RegistryKey(k) == k

\* Lock(): a new lock object, distinct from every one constructed before.
NewLock(module, k) ==
    <<module, k, 1 + Cardinality({L \in DOMAIN held : L[1] = module /\ L[2] = k})>>

\* An acquire that never blocks.
LockFreeAlways(h, L) == TRUE

\* threading.Lock.acquire blocks until the lock is free; not reentrant.
LockFree(h, L) == h[L] = NoThread

\* The registry read and written without waiting for global_lock.
GuardFreeAlways(g) == TRUE

\* global_lock of a module is free.
GuardFree(g) == g = NoThread

\* A release that leaves the lock locked.
ReleaseNothing(h, L) == h

\* Lock.release, at the end of a `with` block.
Release(h, L) == [h EXCEPT ![L] = NoThread]

Acquire(h, L, t) == [h EXCEPT ![L] = t]

\* tenacity retry_if_exception_type: connect_db.py:28 names Exception,
\* llm_connections.py:41 and :69 name RetryableException.
RetryIf(func, exc) ==
    IF func = "get_engine" THEN TRUE ELSE exc = "RetryableException"

\* stop_after_attempt off by one: one attempt too many.
StopAfterAttemptLate(attempt, n) == attempt > n

\* tenacity stop_after_attempt(n).
StopAfterAttempt(attempt, n) == attempt >= n

\* An entry stored before the construction that then fails.
CacheAfterFailurePoisoned(cache, k) == [cache EXCEPT ![k] = <<k, 0>>]

\* What a failed creation leaves in the cache: nothing is stored.
CacheAfterFailure(cache, k) == cache

\* The thread record when no call is in progress.
Fresh ==
    [pc |-> "idle", op |-> "none", key |-> NoKey,
     db_name |-> NoKey, site |-> "none", attempt |-> 0, glret |-> "none",
     lk |-> NoLock, plk |-> NoLock, engine |-> NoHandle, conn |-> "none",
     exists |-> "none", pending |-> "none",
     status |-> "none", ret |-> NoHandle]

\* A new call: the locals and the outcome of the previous one are gone.
Begin(op, k) == [Fresh EXCEPT !.op = op, !.key = k]

Set(t, r) == th' = [th EXCEPT ![t] = r]

\* get_engine(name) is entered: tenacity's first attempt, which starts with get_lock(name).
EnterGetEngine(r, name, site) ==
    [r EXCEPT !.db_name = name, !.site = site, !.attempt = 1,
              !.pc = "gl_enter", !.glret = "ge_lock", !.lk = NoLock]

\* The call returns handle h to whoever called the endpoint function. What
\* stays in the record is what the caller observed: which call, its outcome,
\* and whether its existence check found the database.
Return(r, h) ==
    [Fresh EXCEPT !.pc = "done", !.op = r.op, !.key = r.key, !.exists = r.exists,
                  !.status = "returned", !.ret = h]

\* The call raises e to whoever called the endpoint function.
Raise(r, e) ==
    [Fresh EXCEPT !.pc = "done", !.op = r.op, !.key = r.key, !.exists = r.exists,
                  !.status = e]

\* get_engine returns h: to the endpoint's caller (a direct call, or line 82),
\* or into get_or_create_database at line 58.
ReturnFromGetEngine(r, h) ==
    IF r.site = "admin"
    THEN [r EXCEPT !.pc = "gocd_connect", !.engine = h, !.db_name = NoKey,
                   !.site = "none", !.attempt = 0, !.glret = "none", !.lk = NoLock]
    ELSE Return(r, h)

\* The module of the registry a thread's get_lock call works on.
ModuleOf(r) == IF r.op = "get_agent_executor" THEN "sql_agent" ELSE "connect_db"

\* The argument of the get_lock call in progress.
LockArg(r) == IF r.db_name # NoKey THEN r.db_name ELSE r.key


\* What no request thread ever writes.
fixed == <<RETRY_ATTEMPTS, RETRY_WAIT, preexisting, rt>>

\* A worker thread is free to take up the next request.
Idle(r) == r.pc \in {"idle", "done"} /\ requests < MaxRequests

\* --------------------------------------------------------------- get_lock
\* connect_db.get_lock and sql_agent.get_lock: the same four steps on the
\* module's own global_lock and registry.

\* `with global_lock:` is entered.
GlEnter(t) ==
    LET r == th[t] IN
    /\ r.pc = "gl_enter"
    /\ IF ModuleOf(r) = "connect_db"
       THEN /\ GuardFree(db_global_lock)
            /\ db_global_lock' = t
            /\ UNCHANGED agent_global_lock
       ELSE /\ GuardFree(agent_global_lock)
            /\ agent_global_lock' = t
            /\ UNCHANGED db_global_lock
    /\ Set(t, [r EXCEPT !.pc = "gl_check"])
    /\ UNCHANGED <<engines, locks, agent_cache, cache_locks, upload_project_locks,
                   router_global_lock, held, engine_count, agent_count, databases,
                   known, create_stmts, connections, fixed, router, requests>>

\* `if project_id not in locks:`
GlCheck(t) ==
    LET r == th[t]
        reg == IF ModuleOf(r) = "connect_db" THEN locks ELSE cache_locks
    IN
    /\ r.pc = "gl_check"
    /\ Set(t, [r EXCEPT !.pc = IF InRegistry(reg, RegistryKey(LockArg(r)))
                                THEN "gl_return" ELSE "gl_insert"])
    /\ UNCHANGED <<shared, fixed, router, requests>>

\* `locks[project_id] = Lock()`
GlInsert(t) ==
    LET r == th[t]
        k == RegistryKey(LockArg(r))
        L == NewLock(ModuleOf(r), k)
    IN
    /\ r.pc = "gl_insert"
    /\ held' = (L :> NoThread) @@ held
    /\ IF ModuleOf(r) = "connect_db"
       THEN locks' = [locks EXCEPT ![k] = L] /\ UNCHANGED cache_locks
       ELSE cache_locks' = [cache_locks EXCEPT ![k] = L] /\ UNCHANGED locks
    /\ Set(t, [r EXCEPT !.pc = "gl_return"])
    /\ UNCHANGED <<engines, db_global_lock, agent_cache, agent_global_lock,
                   upload_project_locks, router_global_lock, engine_count,
                   agent_count, databases, known, create_stmts, connections, fixed, router, requests>>

\* A guard that stays locked when get_lock returns.
LeaveGuardHeld(g) == g

\* The end of `with global_lock:`: the guard is unlocked.
LeaveGuard(g) == NoThread

\* `return locks[project_id]`, leaving `with global_lock:`. The caller's
\* `with` statement holds the returned lock object from here on.
GlReturn(t) ==
    LET r == th[t]
        reg == IF ModuleOf(r) = "connect_db" THEN locks ELSE cache_locks
        L == reg[RegistryKey(LockArg(r))]
    IN
    /\ r.pc = "gl_return"
    /\ IF ModuleOf(r) = "connect_db"
       THEN db_global_lock' = LeaveGuard(db_global_lock) /\ UNCHANGED agent_global_lock
       ELSE agent_global_lock' = LeaveGuard(agent_global_lock) /\ UNCHANGED db_global_lock
    /\ Set(t, IF r.glret = "gocd_lock"
              THEN [r EXCEPT !.pc = r.glret, !.glret = "none", !.plk = L]
              ELSE [r EXCEPT !.pc = r.glret, !.glret = "none", !.lk = L])
    /\ UNCHANGED <<engines, locks, agent_cache, cache_locks, upload_project_locks,
                   router_global_lock, held, engine_count, agent_count, databases,
                   known, create_stmts, connections, fixed, router, requests>>

\* ------------------------------------------------------------- get_engine

\* A request thread calls get_engine(k) directly.
StartGetEngine(t, k) ==
    LET r == th[t] IN
    /\ Idle(r)
    /\ requests' = requests + 1
    /\ Set(t, EnterGetEngine(Begin("get_engine", k), k, "direct"))
    /\ UNCHANGED <<shared, fixed, router>>

\* `with get_lock(db_name):` acquires the lock get_lock returned.
GeLock(t) ==
    LET r == th[t] IN
    /\ r.pc = "ge_lock"
    /\ LockFree(held, r.lk)
    /\ held' = Acquire(held, r.lk, t)
    /\ Set(t, [r EXCEPT !.pc = "ge_check"])
    /\ UNCHANGED <<engines, locks, db_global_lock, agent_cache, cache_locks,
                   agent_global_lock, upload_project_locks, router_global_lock,
                   engine_count, agent_count, databases, known, create_stmts, connections, fixed, router, requests>>

\* `if db_name in engines: return engines[db_name]`
GeCheck(t) ==
    LET r == th[t] IN
    /\ r.pc = "ge_check"
    /\ IF InCache(engines, r.db_name)
       THEN /\ held' = Release(held, r.lk)
            /\ Set(t, ReturnFromGetEngine(r, engines[r.db_name]))
       ELSE /\ Set(t, [r EXCEPT !.pc = "ge_create"])
            /\ UNCHANGED held
    /\ UNCHANGED <<engines, locks, db_global_lock, agent_cache, cache_locks,
                   agent_global_lock, upload_project_locks, router_global_lock,
                   engine_count, agent_count, databases, known, create_stmts, connections, fixed, router, requests>>

\* Lines 37-49: create_engine returns and the engine is stored, or something
\* in these lines raises; either way the `with` releases the lock. tenacity
\* then returns the value, sleeps before the next attempt, or gives up with
\* RetryError. A RetryError inside get_or_create_database (line 58) leaves
\* its `with get_lock(project_id)` too.
GeCreateOk(t) ==
    LET r == th[t]
        h == <<r.db_name, engine_count[r.db_name] + 1>>
    IN
    /\ r.pc = "ge_create"
    /\ engines' = [engines EXCEPT ![r.db_name] = h]
    /\ engine_count' = [engine_count EXCEPT ![r.db_name] = @ + 1]
    /\ held' = Release(held, r.lk)
    /\ Set(t, ReturnFromGetEngine(r, h))
    /\ UNCHANGED <<locks, db_global_lock, agent_cache, cache_locks,
                   agent_global_lock, upload_project_locks, router_global_lock,
                   agent_count, databases, known, create_stmts, connections, fixed, router, requests>>

GeCreateFail(t) ==
    LET r == th[t]
        again == /\ RetryIf("get_engine", "Exception")
                 /\ ~StopAfterAttempt(r.attempt, RETRY_ATTEMPTS)
    IN
    /\ r.pc = "ge_create"
    /\ engines' = CacheAfterFailure(engines, r.db_name)
    /\ IF again
       THEN /\ held' = Release(held, r.lk)
            /\ Set(t, [r EXCEPT !.pc = "ge_sleep", !.lk = NoLock])
       ELSE IF r.site = "admin"
       THEN /\ held' = Release(Release(held, r.lk), r.plk)
            /\ Set(t, Raise(r, "RetryError"))
       ELSE /\ held' = Release(held, r.lk)
            /\ Set(t, Raise(r, "RetryError"))
    /\ UNCHANGED <<locks, db_global_lock, agent_cache, cache_locks,
                   agent_global_lock, upload_project_locks, router_global_lock,
                   engine_count, agent_count, databases, known, create_stmts, connections, fixed, router, requests>>

\* The backoff sleep ends: the next attempt runs get_engine's body again.
GeWake(t) ==
    LET r == th[t] IN
    /\ r.pc = "ge_sleep"
    /\ Set(t, [r EXCEPT !.attempt = @ + 1, !.pc = "gl_enter", !.glret = "ge_lock"])
    /\ UNCHANGED <<shared, fixed, router, requests>>


\* ------------------------------------------------- get_or_create_database

StartGetOrCreateDatabase(t, k) ==
    LET r == th[t] IN
    /\ Idle(r)
    /\ requests' = requests + 1
    /\ Set(t, [Begin("get_or_create_database", k)
                 EXCEPT !.pc = "gl_enter", !.glret = "gocd_lock"])
    /\ UNCHANGED <<shared, fixed, router>>

\* `with get_lock(project_id):` acquires the project's lock.
GocdLock(t) ==
    LET r == th[t] IN
    /\ r.pc = "gocd_lock"
    /\ LockFree(held, r.plk)
    /\ held' = Acquire(held, r.plk, t)
    /\ Set(t, [r EXCEPT !.pc = "gocd_check"])
    /\ UNCHANGED <<engines, locks, db_global_lock, agent_cache, cache_locks,
                   agent_global_lock, upload_project_locks, router_global_lock,
                   engine_count, agent_count, databases, known, create_stmts, connections, fixed, router, requests>>

\* `if project_id in engines: return engines[project_id]`; otherwise
\* line 58 calls get_engine(default_db) with the project's lock held.
GocdCheck(t) ==
    LET r == th[t] IN
    /\ r.pc = "gocd_check"
    /\ IF InCache(engines, r.key)
       THEN /\ held' = Release(held, r.plk)
            /\ Set(t, Return(r, engines[r.key]))
       ELSE /\ Set(t, EnterGetEngine(r, DefaultDb, "admin"))
            /\ UNCHANGED held
    /\ UNCHANGED <<engines, locks, db_global_lock, agent_cache, cache_locks,
                   agent_global_lock, upload_project_locks, router_global_lock,
                   engine_count, agent_count, databases, known, create_stmts, connections, fixed, router, requests>>

\* Lines 61-62: engine.connect(), outside the try block. A failure leaves
\* the `with` and reaches the caller; no connection was opened.
GocdConnectOk(t) ==
    LET r == th[t] IN
    /\ r.pc = "gocd_connect"
    /\ connections' = [connections EXCEPT ![t] = "open"]
    /\ Set(t, [r EXCEPT !.pc = "gocd_exists", !.conn = "open"])
    /\ UNCHANGED <<engines, locks, db_global_lock, agent_cache, cache_locks,
                   agent_global_lock, upload_project_locks, router_global_lock, held,
                   engine_count, agent_count, databases, known, create_stmts, fixed, router, requests>>

GocdConnectFail(t) ==
    LET r == th[t] IN
    /\ r.pc = "gocd_connect"
    /\ held' = Release(held, r.plk)
    /\ Set(t, Raise(r, "OperationalError"))
    /\ UNCHANGED <<engines, locks, db_global_lock, agent_cache, cache_locks,
                   agent_global_lock, upload_project_locks, router_global_lock,
                   engine_count, agent_count, databases, known, create_stmts, connections, fixed, router, requests>>

\* An existence check that finds a row for every name.
SelectDatabaseAlways(dbs, k) == TRUE

\* The row the server answers `SELECT 1 FROM pg_database WHERE datname=...` with.
SelectDatabase(dbs, k) == k \in dbs

\* Lines 66-68: the existence check answers.
GocdExistsOk(t) ==
    LET r == th[t]
        exists == SelectDatabase(databases, r.key)
    IN
    /\ r.pc = "gocd_exists"
    /\ known' = IF exists THEN known \cup {r.key} ELSE known
    /\ Set(t, [r EXCEPT !.exists = IF exists THEN "yes" ELSE "no",
                        !.pc = IF exists THEN "gocd_finally" ELSE "gocd_create"])
    /\ UNCHANGED <<engines, locks, db_global_lock, agent_cache, cache_locks,
                   agent_global_lock, upload_project_locks, router_global_lock, held,
                   engine_count, agent_count, databases, create_stmts, connections, fixed, router, requests>>

\* An except clause without its `raise`: the error is logged and dropped.
ExceptClauseSwallows(e) == "none"

\* Lines 74-76: `except SQLAlchemyError as e: print(...); raise`. What is
\* pending when the clause is left is the exception it caught.
ExceptClause(e) == e

\* Line 66 raises: `except SQLAlchemyError` logs and re-raises, through `finally`.
GocdExistsFail(t) ==
    LET r == th[t] IN
    /\ r.pc = "gocd_exists"
    /\ Set(t, [r EXCEPT !.pc = "gocd_finally", !.pending = ExceptClause("SQLAlchemyError")])
    /\ UNCHANGED <<shared, fixed, router, requests>>

\* Line 70: CREATE DATABASE succeeds. The server refuses to create a
\* database that exists.
GocdCreateOk(t) ==
    LET r == th[t] IN
    /\ r.pc = "gocd_create"
    /\ r.key \notin databases
    /\ databases' = databases \cup {r.key}
    /\ known' = known \cup {r.key}
    /\ create_stmts' = [create_stmts EXCEPT ![r.key] = @ + 1]
    /\ Set(t, [r EXCEPT !.pc = "gocd_finally"])
    /\ UNCHANGED <<engines, locks, db_global_lock, agent_cache, cache_locks,
                   agent_global_lock, upload_project_locks, router_global_lock, held,
                   engine_count, agent_count, connections, fixed, router, requests>>

\* Line 70 raises (the server is unreachable, or the database exists).
GocdCreateFail(t) ==
    LET r == th[t] IN
    /\ r.pc = "gocd_create"
    /\ create_stmts' = [create_stmts EXCEPT ![r.key] = @ + 1]
    /\ Set(t, [r EXCEPT !.pc = "gocd_finally", !.pending = ExceptClause("SQLAlchemyError")])
    /\ UNCHANGED <<engines, locks, db_global_lock, agent_cache, cache_locks,
                   agent_global_lock, upload_project_locks, router_global_lock, held,
                   engine_count, agent_count, databases, known, connections, fixed, router, requests>>

\* A close() that leaves the connection as it is.
CloseConnectionLeak(c) == c

\* Connection.close(): a checked-out connection goes back to the pool of its
\* engine, where it stays connected to the server ("idle"). A connection
\* whose pool the engine has dropped meanwhile ("detached") has no pool to
\* go back to and is closed for good.
CloseConnection(c) == IF c = "open" THEN "idle" ELSE "none"

\* Engine.dispose(): the idle connections of the pool are closed and the
\* engine gets a new, empty pool. Connections that are checked out stay
\* open; they no longer belong to the engine.
Dispose(conns) ==
    [u \in DOMAIN conns |->
        CASE conns[u] = "idle" -> "none"
          [] conns[u] = "open" -> "detached"
          [] OTHER -> conns[u]]

\* Lines 77-78: `finally: connection.close()`.
GocdFinally(t) ==
    LET r == th[t] IN
    /\ r.pc = "gocd_finally"
    /\ connections' = [connections EXCEPT ![t] = CloseConnection(@)]
    /\ Set(t, [r EXCEPT !.pc = "gocd_dispose", !.conn = "closed"])
    /\ UNCHANGED <<engines, locks, db_global_lock, agent_cache, cache_locks,
                   agent_global_lock, upload_project_locks, router_global_lock, held,
                   engine_count, agent_count, databases, known, create_stmts, fixed, router, requests>>

\* Line 79: `engine.dispose()`, on the engine line 58 got from the cache:
\* the one engines[default_db] every provisioning call shares.
GocdDispose(t) ==
    LET r == th[t] IN
    /\ r.pc = "gocd_dispose"
    /\ connections' = Dispose(connections)
    /\ Set(t, [r EXCEPT !.pc = "gocd_exit"])
    /\ UNCHANGED <<engines, locks, db_global_lock, agent_cache, cache_locks,
                   agent_global_lock, upload_project_locks, router_global_lock, held,
                   engine_count, agent_count, databases, known, create_stmts, fixed, router, requests>>

\* The `with` block is left: the project's lock is released, and either the
\* pending exception reaches the caller or line 82 calls get_engine(project_id).
GocdExit(t) ==
    LET r == th[t] IN
    /\ r.pc = "gocd_exit"
    /\ held' = Release(held, r.plk)
    /\ Set(t, IF r.pending # "none"
              THEN Raise(r, r.pending)
              ELSE EnterGetEngine([r EXCEPT !.plk = NoLock], r.key, "final"))
    /\ UNCHANGED <<engines, locks, db_global_lock, agent_cache, cache_locks,
                   agent_global_lock, upload_project_locks, router_global_lock,
                   engine_count, agent_count, databases, known, create_stmts, connections, fixed, router, requests>>

\* ----------------------------------------------------- get_agent_executor

StartGetAgentExecutor(t, k) ==
    LET r == th[t] IN
    /\ Idle(r)
    /\ requests' = requests + 1
    /\ Set(t, [Begin("get_agent_executor", k)
                 EXCEPT !.pc = "gl_enter", !.glret = "ga_lock"])
    /\ UNCHANGED <<shared, fixed, router>>

\* `with agent_lock:`
GaLock(t) ==
    LET r == th[t] IN
    /\ r.pc = "ga_lock"
    /\ LockFree(held, r.lk)
    /\ held' = Acquire(held, r.lk, t)
    /\ Set(t, [r EXCEPT !.pc = "ga_check"])
    /\ UNCHANGED <<engines, locks, db_global_lock, agent_cache, cache_locks,
                   agent_global_lock, upload_project_locks, router_global_lock,
                   engine_count, agent_count, databases, known, create_stmts, connections, fixed, router, requests>>

\* `if project_id in agent_cache: agent_executor = agent_cache[project_id]`
GaCheck(t) ==
    LET r == th[t] IN
    /\ r.pc = "ga_check"
    /\ IF InCache(agent_cache, r.key)
       THEN /\ held' = Release(held, r.lk)
            /\ Set(t, Return(r, agent_cache[r.key]))
       ELSE /\ Set(t, [r EXCEPT !.pc = "ga_create"])
            /\ UNCHANGED held
    /\ UNCHANGED <<engines, locks, db_global_lock, agent_cache, cache_locks,
                   agent_global_lock, upload_project_locks, router_global_lock,
                   engine_count, agent_count, databases, known, create_stmts, connections, fixed, router, requests>>

\* Lines 46-73: SQLDatabase.from_uri, SQLDatabaseToolkit and create_sql_agent
\* return and the executor is stored.
GaCreateOk(t) ==
    LET r == th[t]
        h == <<r.key, agent_count[r.key] + 1>>
    IN
    /\ r.pc = "ga_create"
    /\ agent_cache' = [agent_cache EXCEPT ![r.key] = h]
    /\ agent_count' = [agent_count EXCEPT ![r.key] = @ + 1]
    /\ held' = Release(held, r.lk)
    /\ Set(t, Return(r, h))
    /\ UNCHANGED <<engines, locks, db_global_lock, cache_locks, agent_global_lock,
                   upload_project_locks, router_global_lock, engine_count,
                   databases, known, create_stmts, connections, fixed, router, requests>>

\* Lines 46-71 raise: the `with` releases the lock, `except Exception`
\* logs and re-raises. There is no retry.
GaCreateFail(t) ==
    LET r == th[t] IN
    /\ r.pc = "ga_create"
    /\ agent_cache' = CacheAfterFailure(agent_cache, r.key)
    /\ held' = Release(held, r.lk)
    /\ Set(t, Raise(r, "Exception"))
    /\ UNCHANGED <<engines, locks, db_global_lock, cache_locks, agent_global_lock,
                   upload_project_locks, router_global_lock, engine_count,
                   agent_count, databases, known, create_stmts, connections, fixed, router, requests>>

\* ------------------------------------------------------- get_project_lock

\* csv_router.get_project_lock runs on the event loop. global_lock is never
\* held across an await, so `async with global_lock` finds it free and does
\* not suspend: from the call to the return no other task runs.
GetProjectLock(t, k) ==
    LET r == th[t]
        rk == RegistryKey(k)
        L == NewLock("csv_router", rk)
        reg == IF InRegistry(upload_project_locks, rk)
               THEN upload_project_locks
               ELSE [upload_project_locks EXCEPT ![rk] = L]
    IN
    /\ Idle(r)
    /\ requests' = requests + 1
    /\ GuardFree(router_global_lock)
    /\ upload_project_locks' = reg
    /\ held' = IF InRegistry(upload_project_locks, rk) THEN held
               ELSE (L :> NoThread) @@ held
    /\ Set(t, Return([Begin("get_project_lock", k) EXCEPT !.lk = reg[rk]], reg[rk]))
    /\ UNCHANGED <<engines, locks, db_global_lock, agent_cache, cache_locks,
                   agent_global_lock, router_global_lock, engine_count,
                   agent_count, databases, known, create_stmts, connections, fixed, router>>

\* ------------------------------------------------- upload_data, delete_data
\* The handlers of csv_router run as tasks of one event loop: a task runs
\* alone from one suspension point to the next. The MongoDB client is
\* synchronous, so its calls are not suspension points; `async with
\* project_lock`, `await file.read()` and `await read_csv_async(...)` are.

\* The request tasks in flight at one time.
Handlers == {"h1", "h2"}

\* Uploaded file names, as <<stem, extension>>.
Files == {<<"a", "csv">>, <<"a", "txt">>}

\* Lines 49 and 63: `file.filename.endswith('.csv') or ...endswith('.xlsx')`.
SupportedFormat(f) == f[2] \in {"csv", "xlsx"}

\* The task record when no request is being handled.
HFresh ==
    [pc |-> "idle", op |-> "none", key |-> NoKey, file |-> <<>>, req |-> 0,
     id |-> 0, lk |-> NoLock, resp |-> 0, exc |-> "none"]

\* A task is free to take up the next request.
HIdle(r) == r.pc \in {"idle", "done"} /\ requests < MaxRequests

\* get_project_lock(k), lines 24-28: the registry, and the set of lock
\* objects, after the call.
ProjectLocksAfter(k) ==
    IF InRegistry(upload_project_locks, RegistryKey(k))
    THEN upload_project_locks
    ELSE [upload_project_locks EXCEPT ![RegistryKey(k)] = NewLock("csv_router", RegistryKey(k))]

HeldAfterGetProjectLock(k) ==
    IF InRegistry(upload_project_locks, RegistryKey(k))
    THEN held
    ELSE (NewLock("csv_router", RegistryKey(k)) :> NoThread) @@ held

\* collection.find_one({'file_name': f}): the _id of a document with that
\* file name, any of them when there are several, or 0 for None.
FindOne(coll, f) ==
    LET hits == {i \in DOMAIN coll : coll[i].file_name = f} IN
    IF hits = {} THEN {0} ELSE hits

\* collection.update_one({'_id': id}, {'$set': fields}, upsert=True).
Upsert(coll, id, fields) ==
    LET old == IF id \in DOMAIN coll THEN coll[id]
               ELSE [file_name |-> <<>>, project_id |-> NoKey,
                     file_type |-> "none", status |-> "none"]
        doc == [x \in DOMAIN old |-> IF x \in DOMAIN fields THEN fields[x] ELSE old[x]]
    IN (id :> doc) @@ coll

\* collection.update_one({'_id': id}, {'$set': {'status': st}}): no upsert,
\* a query that matches nothing changes nothing.
UpdateStatus(coll, id, st) ==
    IF id \in DOMAIN coll THEN [coll EXCEPT ![id].status = st] ELSE coll

SetH(h, r) == hd' = [hd EXCEPT ![h] = r]

\* The handler returns a JSONResponse with status code `code`.
Respond(r, code) == [r EXCEPT !.pc = "done", !.resp = code, !.lk = NoLock]

\* An exception leaves the handler: it returns no response.
Escape(r) == [r EXCEPT !.pc = "done", !.exc = "Exception", !.lk = NoLock]

\* The end of an except clause whose update_one succeeded (`return
\* JSONResponse(status_code=500, ...)`), or raised.
AnswerError(r, ok) == IF ok THEN Respond(r, 500) ELSE Escape(r)

\* A request POST /csv/upload_data arrives: line 44 draws the uuid, line 46
\* gets the project's lock, and line 47 starts to acquire it.
StartUploadData(h, k, f) ==
    LET r == hd[h] IN
    /\ HIdle(r)
    /\ GuardFree(router_global_lock)
    /\ requests' = requests + 1
    /\ upload_project_locks' = ProjectLocksAfter(k)
    /\ held' = HeldAfterGetProjectLock(k)
    /\ SetH(h, [HFresh EXCEPT !.pc = "ud_lock", !.op = "upload_data", !.key = k,
                              !.file = f, !.req = requests + 1, !.id = requests + 1,
                              !.lk = ProjectLocksAfter(k)[RegistryKey(k)]])
    /\ UNCHANGED <<caches, router_global_lock, fixed, th, collection, bg>>

\* A rejection that comes after the upsert of line 70.
CollectionAtRejectUpserted(coll, r) ==
    Upsert(coll, r.id, [file_name |-> r.file, project_id |-> r.key,
                        file_type |-> r.file[2], status |-> "in_progress"])

\* The collection when the handler returns 400: the returns of lines 50 and
\* 59 come before the first write, line 70.
CollectionAtReject(coll, r) == coll

\* Lines 47-50: the lock is acquired, the extension is not supported, and
\* the 400 response leaves the `async with`.
UdRejectFormat(h) ==
    LET r == hd[h] IN
    /\ r.pc = "ud_lock"
    /\ LockFree(held, r.lk)
    /\ ~SupportedFormat(r.file)
    /\ collection' = CollectionAtReject(collection, r)
    /\ SetH(h, Respond(r, 400))
    /\ UNCHANGED <<caches, upload_project_locks, router_global_lock, held, fixed,
                   requests, th, bg>>

\* Lines 55-59: a document of that file name has status 'success'.
UdRejectExisting(h) ==
    LET r == hd[h] IN
    /\ r.pc = "ud_lock"
    /\ LockFree(held, r.lk)
    /\ SupportedFormat(r.file)
    /\ \E c \in FindOne(collection, r.file) :
           c # 0 /\ collection[c].status = "success"
    /\ collection' = CollectionAtReject(collection, r)
    /\ SetH(h, Respond(r, 400))
    /\ UNCHANGED <<caches, upload_project_locks, router_global_lock, held, fixed,
                   requests, th, bg>>

\* Lines 47-72: the lock is acquired; no document of that file name, or one
\* whose status is not 'success' and whose _id is taken over; the document
\* is upserted with status 'in_progress'; the task suspends in file.read().
UdBegin(h) ==
    LET r == hd[h] IN
    /\ r.pc = "ud_lock"
    /\ LockFree(held, r.lk)
    /\ SupportedFormat(r.file)
    /\ \E c \in FindOne(collection, r.file) :
           /\ c # 0 => collection[c].status # "success"
           /\ LET id == IF c # 0 THEN c ELSE r.id IN
              /\ collection' = Upsert(collection, id,
                                   [file_name |-> r.file, project_id |-> r.key,
                                    file_type |-> r.file[2], status |-> "in_progress"])
              /\ SetH(h, [r EXCEPT !.pc = "ud_read", !.id = id])
    /\ held' = Acquire(held, r.lk, h)
    /\ UNCHANGED <<caches, upload_project_locks, router_global_lock, fixed,
                   requests, th, bg>>

\* An except clause that writes nothing.
ExceptUploadDataNothing(coll, id, ok) == coll

\* Lines 90-96, `except Exception`: the document of `id` is upserted with
\* status 'fail', unless this update_one raises as well.
ExceptUploadData(coll, id, ok) ==
    IF ok THEN Upsert(coll, id, [status |-> "fail"]) ELSE coll

\* Lines 55-70 raise (find_one, or the upsert): the `async with` is left
\* and the except clause answers 500. `id` is the uuid, or the _id of the
\* document find_one returned before the upsert raised.
UdMongoFail(h) ==
    LET r == hd[h] IN
    /\ r.pc = "ud_lock"
    /\ LockFree(held, r.lk)
    /\ SupportedFormat(r.file)
    /\ \E c \in FindOne(collection, r.file) \cup {0}, ok \in BOOLEAN :
           /\ c # 0 => collection[c].status # "success"
           /\ LET id == IF c # 0 THEN c ELSE r.id IN
              /\ collection' = ExceptUploadData(collection, id, ok)
              /\ SetH(h, AnswerError([r EXCEPT !.id = id], ok))
    /\ UNCHANGED <<caches, upload_project_locks, router_global_lock, held, fixed,
                   requests, th, bg>>

\* Line 72: file.read() returns; the task suspends again in lines 76/79,
\* where a thread of the pool parses the contents.
UdReadOk(h) ==
    LET r == hd[h] IN
    /\ r.pc = "ud_read"
    /\ SetH(h, [r EXCEPT !.pc = "ud_parse"])
    /\ UNCHANGED <<caches, upload_project_locks, router_global_lock, held, fixed,
                   requests, th, collection, bg>>

\* Line 72, or the parser of lines 76/79, raises: the `async with` releases
\* the lock and the except clause answers 500.
UdFail(h) ==
    LET r == hd[h] IN
    /\ r.pc \in {"ud_read", "ud_parse"}
    /\ held' = Release(held, r.lk)
    /\ \E ok \in BOOLEAN :
           /\ collection' = ExceptUploadData(collection, r.id, ok)
           /\ SetH(h, AnswerError(r, ok))
    /\ UNCHANGED <<caches, upload_project_locks, router_global_lock, fixed,
                   requests, th, bg>>

\* Lines 81-89: the data frame is there; upload_to_sql is added to the
\* background tasks of the response, and the 200 response leaves the
\* `async with`.
UdParseOk(h) ==
    LET r == hd[h] IN
    /\ r.pc = "ud_parse"
    /\ held' = Release(held, r.lk)
    /\ bg' = bg \cup {[func |-> "upload_to_sql", key |-> r.key, file |-> r.file,
                       id |-> r.id, req |-> r.req, state |-> "added"]}
    /\ SetH(h, Respond(r, 200))
    /\ UNCHANGED <<caches, upload_project_locks, router_global_lock, fixed,
                   requests, th, collection>>

\* A request POST /csv/delete_data arrives: line 143 gets the project's
\* lock and line 144 starts to acquire it.
StartDeleteData(h, k, file_id) ==
    LET r == hd[h] IN
    /\ HIdle(r)
    /\ GuardFree(router_global_lock)
    /\ requests' = requests + 1
    /\ upload_project_locks' = ProjectLocksAfter(k)
    /\ held' = HeldAfterGetProjectLock(k)
    /\ SetH(h, [HFresh EXCEPT !.pc = "dd_lock", !.op = "delete_data", !.key = k,
                              !.req = requests + 1, !.id = file_id,
                              !.lk = ProjectLocksAfter(k)[RegistryKey(k)]])
    /\ UNCHANGED <<caches, router_global_lock, fixed, th, collection, bg>>

\* Lines 144-156: the lock is acquired, the document's status becomes
\* 'deleting', delete_data_sql is added to the background tasks, and the 200
\* response leaves the `async with`. Nothing in between suspends.
DdOk(h) ==
    LET r == hd[h] IN
    /\ r.pc = "dd_lock"
    /\ LockFree(held, r.lk)
    /\ collection' = UpdateStatus(collection, r.id, "deleting")
    /\ bg' = bg \cup {[func |-> "delete_data_sql", key |-> r.key, file |-> <<>>,
                       id |-> r.id, req |-> r.req, state |-> "added"]}
    /\ SetH(h, Respond(r, 200))
    /\ UNCHANGED <<caches, upload_project_locks, router_global_lock, held, fixed,
                   requests, th>>

\* An except clause that leaves the status as it is.
ExceptDeleteDataNothing(coll, id, ok) == coll

\* Lines 158-164, `except Exception`: the status of the document of
\* `file_id` is set to 'success', unless this update_one raises as well.
ExceptDeleteData(coll, id, ok) ==
    IF ok THEN UpdateStatus(coll, id, "success") ELSE coll

\* Line 151 raises; lines 158-164 set the status to 'success' and answer 500.
DdFail(h) ==
    LET r == hd[h] IN
    /\ r.pc = "dd_lock"
    /\ LockFree(held, r.lk)
    /\ \E ok \in BOOLEAN :
           /\ collection' = ExceptDeleteData(collection, r.id, ok)
           /\ SetH(h, AnswerError(r, ok))
    /\ UNCHANGED <<caches, upload_project_locks, router_global_lock, held, fixed,
                   requests, th, bg>>

\* ---------------------------------------------------------- specification

\* No retry-wrapped call is run in isolation.
RtIdle ==
    [pc |-> "off", func |-> "none", script |-> <<>>, attempt_number |-> 0,
     attempts |-> 0, sleeps |-> 0, delays |-> <<>>, exc |-> "none"]

Init ==
    /\ RETRY_ATTEMPTS \in 1..MaxAttempts
    /\ RETRY_WAIT = [multiplier |-> 1, min |-> 0, max |-> MaxWait]
    /\ engines = [k \in Keys |-> NoHandle]
    /\ locks = [k \in Keys |-> NoLock]
    /\ db_global_lock = NoThread
    /\ agent_cache = [k \in Keys |-> NoHandle]
    /\ cache_locks = [k \in Keys |-> NoLock]
    /\ agent_global_lock = NoThread
    /\ upload_project_locks = [k \in Keys |-> NoLock]
    /\ router_global_lock = NoThread
    /\ held = <<>>
    /\ engine_count = [k \in Keys |-> 0]
    /\ agent_count = [k \in Keys |-> 0]
    /\ preexisting \in {{DefaultDb} \cup S : S \in SUBSET Projects}
    /\ databases = preexisting
    /\ known = {}
    /\ create_stmts = [k \in Keys |-> 0]
    /\ connections = [t \in Threads |-> "none"]
    /\ requests = 0
    /\ th = [t \in Threads |-> Fresh]
    /\ hd = [h \in Handlers |-> HFresh]
    /\ collection = <<>>
    /\ bg = {}
    /\ rt = RtIdle

\* A step of a thread inside connect_db.
DbStep(t) ==
    \/ GlEnter(t) \/ GlCheck(t) \/ GlInsert(t) \/ GlReturn(t)
    \/ GeLock(t) \/ GeCheck(t) \/ GeCreateOk(t) \/ GeCreateFail(t) \/ GeWake(t)
    \/ GocdLock(t) \/ GocdCheck(t) \/ GocdConnectOk(t) \/ GocdConnectFail(t)
    \/ GocdExistsOk(t) \/ GocdExistsFail(t) \/ GocdCreateOk(t) \/ GocdCreateFail(t)
    \/ GocdFinally(t) \/ GocdDispose(t) \/ GocdExit(t)

\* A step of a thread inside sql_agent.get_agent_executor.
AgentStep(t) ==
    \/ GaLock(t) \/ GaCheck(t) \/ GaCreateOk(t) \/ GaCreateFail(t)

\* Requests for get_engine and get_or_create_database, over every key.
Next ==
    \E t \in Threads :
        \/ DbStep(t)
        \/ \E k \in Keys :
            \/ StartGetEngine(t, k)
            \/ StartGetOrCreateDatabase(t, k)

Spec == Init /\ [][Next]_vars

\* The keys the requests of SpecAll name.
CacheKeys == {"acme", DefaultDb}

\* Requests for all three caches and the router's lock registry.
NextAll ==
    \E t \in Threads :
        \/ DbStep(t)
        \/ AgentStep(t)
        \/ \E k \in CacheKeys :
            \/ StartGetEngine(t, k)
            \/ StartGetOrCreateDatabase(t, k)
            \/ StartGetAgentExecutor(t, k)
            \/ GetProjectLock(t, k)

SpecAll == Init /\ [][NextAll]_vars

\* The response has been sent: Starlette starts the background task, a
\* plain function, on a thread of the pool.
BgStart(b) ==
    /\ b \in bg
    /\ b.state = "added"
    /\ bg' = (bg \ {b}) \cup {[b EXCEPT !.state = "running"]}
    /\ UNCHANGED <<shared, fixed, requests, th, hd, collection>>

\* What the finished task leaves in the collection. upload_to_sql ends the
\* transition in_progress -> success | fail of the upload's document;
\* delete_data_sql removes the document, or puts its status back to
\* 'success' when the deletion failed.
BgOutcome(coll, b, ok) ==
    IF b.func = "upload_to_sql"
    THEN UpdateStatus(coll, b.id, IF ok THEN "success" ELSE "fail")
    ELSE IF ok
         THEN [i \in DOMAIN coll \ {b.id} |-> coll[i]]
         ELSE UpdateStatus(coll, b.id, "success")

\* The background task ends.
BgFinish(b) ==
    /\ b \in bg
    /\ b.state = "running"
    /\ bg' = bg \ {b}
    /\ \E ok \in BOOLEAN : collection' = BgOutcome(collection, b, ok)
    /\ UNCHANGED <<shared, fixed, requests, th, hd>>

\* A step of a request task of csv_router.
HandlerStep(h) ==
    \/ UdRejectFormat(h) \/ UdRejectExisting(h) \/ UdBegin(h) \/ UdMongoFail(h)
    \/ UdReadOk(h) \/ UdFail(h) \/ UdParseOk(h)
    \/ DdOk(h) \/ DdFail(h)

\* Requests for upload_data and delete_data, and their background tasks.
NextRouter ==
    \/ \E h \in Handlers :
        \/ HandlerStep(h)
        \/ \E k \in Projects :
            \/ \E f \in Files : StartUploadData(h, k, f)
            \/ \E file_id \in DOMAIN collection \cup {0} : StartDeleteData(h, k, file_id)
    \/ \E b \in bg : BgStart(b) \/ BgFinish(b)

SpecRouter == Init /\ [][NextRouter]_vars


\* ------------------------------------------------------------ retry policy
\* One call of a function decorated with
\*   @retry(stop=stop_after_attempt(RETRY_ATTEMPTS), wait=RETRY_WAIT, retry=...)
\* run alone. script[i] is what the backend does to the i-th execution of
\* the function's body: it answers ("ok"), it fails the way an unreachable
\* server does ("transient"), or it rejects the request itself, as for a
\* wrong API key or a malformed prompt ("permanent").

Wrapped == {"get_engine", "groq_llm", "gpt_llm"}

Backend == {"ok", "transient", "permanent"}

\* What one execution of the body ends with: "return", or the type of the
\* exception that leaves the function.
\*   get_engine  lines 32-49 propagate whatever is raised.
\*   groq_llm    lines 65-67: `except Exception as e: raise RetryableException(e)`;
\*               the response is taken to support the subscripts of line 64.
\*   gpt_llm     line 88 calls the module `openai`, a TypeError on every
\*               execution, which lines 102-104 wrap in RetryableException.
BodyOutcome(func, backend) ==
    CASE func = "get_engine" -> IF backend = "ok" THEN "return" ELSE "Exception"
      [] func = "groq_llm" -> IF backend = "ok" THEN "return" ELSE "RetryableException"
      [] OTHER -> "RetryableException"

Min(a, b) == IF a <= b THEN a ELSE b

Max(a, b) == IF a >= b THEN a ELSE b

RECURSIVE Pow2(_)
\* exp_base ** n, with tenacity's default exp_base of 2.
Pow2(n) == IF n = 0 THEN 1 ELSE 2 * Pow2(n - 1)

\* The exponential growth without its upper limit.
WaitExponentialUncapped(w, attempt_number) ==
    Max(Max(0, w.min), w.multiplier * Pow2(attempt_number - 1))

\* tenacity wait_exponential.__call__: the seconds to sleep after attempt
\* number attempt_number has failed,
\*   max(max(0, self.min), min(self.multiplier * exp_base ** (n - 1), self.max)).
WaitExponential(w, attempt_number) ==
    Max(Max(0, w.min), Min(w.multiplier * Pow2(attempt_number - 1), w.max))

InitRetry ==
    /\ RETRY_ATTEMPTS \in 1..MaxPolicyAttempts
    /\ RETRY_WAIT \in [multiplier : 0..MaxMultiplier, min : 0..MaxWait, max : 0..MaxWait]
    /\ engines = [k \in Keys |-> NoHandle]
    /\ locks = [k \in Keys |-> NoLock]
    /\ db_global_lock = NoThread
    /\ agent_cache = [k \in Keys |-> NoHandle]
    /\ cache_locks = [k \in Keys |-> NoLock]
    /\ agent_global_lock = NoThread
    /\ upload_project_locks = [k \in Keys |-> NoLock]
    /\ router_global_lock = NoThread
    /\ held = <<>>
    /\ engine_count = [k \in Keys |-> 0]
    /\ agent_count = [k \in Keys |-> 0]
    /\ preexisting = {DefaultDb}
    /\ databases = preexisting
    /\ known = {}
    /\ create_stmts = [k \in Keys |-> 0]
    /\ connections = [t \in Threads |-> "none"]
    /\ requests = 0
    /\ th = [t \in Threads |-> Fresh]
    /\ hd = [h \in Handlers |-> HFresh]
    /\ collection = <<>>
    /\ bg = {}
    /\ \E f \in Wrapped, sc \in [1..MaxScript -> Backend] :
           rt = [RtIdle EXCEPT !.pc = "attempt", !.func = f, !.script = sc,
                               !.attempt_number = 1]

\* tenacity runs the body: DoAttempt. A returned value ends the call.
RtAttemptReturns ==
    /\ rt.pc = "attempt"
    /\ BodyOutcome(rt.func, rt.script[rt.attempt_number]) = "return"
    /\ rt' = [rt EXCEPT !.pc = "returned", !.attempts = @ + 1]
    /\ UNCHANGED <<shared, RETRY_ATTEMPTS, RETRY_WAIT, preexisting, router, requests, th>>

\* The body raises: an exception the retry predicate rejects is re-raised
\* as it is; one it accepts ends in RetryError when stop_after_attempt says
\* so, and in a backoff sleep (DoSleep) otherwise.
RtAttemptRaises ==
    LET e == BodyOutcome(rt.func, rt.script[rt.attempt_number]) IN
    /\ rt.pc = "attempt"
    /\ e # "return"
    /\ rt' = IF ~RetryIf(rt.func, e)
             THEN [rt EXCEPT !.pc = "raised", !.attempts = @ + 1, !.exc = e]
             ELSE IF StopAfterAttempt(rt.attempt_number, RETRY_ATTEMPTS)
             THEN [rt EXCEPT !.pc = "raised", !.attempts = @ + 1, !.exc = "RetryError"]
             ELSE [rt EXCEPT !.pc = "sleep", !.attempts = @ + 1, !.sleeps = @ + 1,
                             !.delays = Append(@, WaitExponential(RETRY_WAIT, rt.attempt_number))]
    /\ UNCHANGED <<shared, RETRY_ATTEMPTS, RETRY_WAIT, preexisting, router, requests, th>>

\* The sleep ends: prepare_for_next_attempt, then the next DoAttempt.
RtWake ==
    /\ rt.pc = "sleep"
    /\ rt' = [rt EXCEPT !.pc = "attempt", !.attempt_number = @ + 1]
    /\ UNCHANGED <<shared, RETRY_ATTEMPTS, RETRY_WAIT, preexisting, router, requests, th>>

NextRetry == RtAttemptReturns \/ RtAttemptRaises \/ RtWake

SpecRetry == InitRetry /\ [][NextRetry]_vars


\* ------------------------------------------------------ claims: SpecRetry

\* The backend fails transiently on the first m executions and answers the
\* next one (a script of nothing but failures has m = MaxScript).
TransientThenOk(sc, m) ==
    /\ \A i \in 1..m : sc[i] = "transient"
    /\ m < Len(sc) => sc[m + 1] = "ok"

\* C7. Retry bound. For get_engine and groq_llm, when the wrapped body fails
\* transiently m times and then succeeds: with RETRY_ATTEMPTS >= m+1 the
\* call returns after exactly m+1 executions and m sleeps; with
\* RETRY_ATTEMPTS <= m it raises once, after exactly RETRY_ATTEMPTS
\* executions and RETRY_ATTEMPTS-1 sleeps. It never sleeps after the last
\* attempt and never runs the body again after a success.
C7_RetryBound ==
    \A m \in 0..MaxScript :
        (rt.func \in {"get_engine", "groq_llm"} /\ TransientThenOk(rt.script, m)) =>
            LET n == RETRY_ATTEMPTS
                last == IF n >= m + 1 THEN m + 1 ELSE n
            IN
            /\ rt.attempts <= last
            /\ rt.sleeps <= last - 1
            /\ rt.pc = "sleep" => rt.attempts < last
            /\ rt.pc = "returned" =>
                   n >= m + 1 /\ rt.attempts = m + 1 /\ rt.sleeps = m
            /\ rt.pc = "raised" =>
                   /\ n <= m /\ rt.attempts = n /\ rt.sleeps = n - 1
                   /\ rt.exc = "RetryError"

\* Two failures, then success on the third of three attempts: two sleeps.
C7_Witness ==
    /\ rt.func = "get_engine"
    /\ RETRY_ATTEMPTS = 3
    /\ TransientThenOk(rt.script, 2)
    /\ rt.pc = "returned" /\ rt.attempts = 3 /\ rt.sleeps = 2

\* C8. Permanent failures are not retried: an LLM call (groq_llm, gpt_llm)
\* whose first execution meets a non-transient caller error is executed
\* exactly once and the failure propagates with no backoff sleep.
C8_PermanentNotRetried ==
    (rt.func \in {"groq_llm", "gpt_llm"} /\ rt.script[1] = "permanent") =>
        /\ rt.attempts <= 1
        /\ rt.sleeps = 0
        /\ rt.pc # "sleep"


\* --------------------------------------------- claims: Spec and SpecAll

\* Thread t's call of endpoint `op` for key k has returned a handle.
Returned(t, op, k) ==
    th[t].pc = "done" /\ th[t].op = op /\ th[t].key = k /\ th[t].status = "returned"

\* Thread t is inside lines 37-48 of get_engine(k).
InEngineCreation(t, k) == th[t].pc = "ge_create" /\ th[t].db_name = k

\* Thread t is inside lines 57-79 of get_or_create_database(k).
InProvisioning(t, k) ==
    /\ th[t].op = "get_or_create_database"
    /\ th[t].key = k
    /\ \/ th[t].site = "admin"
       \/ th[t].pc \in {"gocd_connect", "gocd_exists", "gocd_create",
                        "gocd_finally", "gocd_dispose", "gocd_exit"}

\* Thread t is inside lines 46-72 of get_agent_executor(k).
InAgentCreation(t, k) == th[t].pc = "ga_create" /\ th[t].key = k

\* The lock object thread t is about to acquire, if any.
WaitsOn(t) ==
    CASE th[t].pc \in {"ge_lock", "ga_lock"} -> th[t].lk
      [] th[t].pc = "gocd_lock" -> th[t].plk
      [] OTHER -> NoLock

\* Thread t is blocked: the lock it is about to acquire is held.
Blocked(t) == WaitsOn(t) # NoLock /\ held[WaitsOn(t)] # NoThread

\* C1. At-most-one creation. For every key, create_engine (create_sql_agent)
\* returns at most once, whatever the number of callers, and every caller
\* that returns gets the one handle that creation stored.
C1_AtMostOneCreation ==
    \A k \in Keys :
        /\ engine_count[k] <= 1
        /\ agent_count[k] <= 1
        /\ \A t \in Threads :
            /\ (Returned(t, "get_engine", k) \/ Returned(t, "get_or_create_database", k)) =>
                   /\ engine_count[k] = 1
                   /\ th[t].ret = engines[k]
                   /\ th[t].ret = <<k, 1>>
            /\ Returned(t, "get_agent_executor", k) =>
                   /\ agent_count[k] = 1
                   /\ th[t].ret = agent_cache[k]
                   /\ th[t].ret = <<k, 1>>

\* Two callers of get_engine("acme") have both returned the one engine.
C1_Witness ==
    /\ \A t \in Threads : Returned(t, "get_engine", "acme") /\ th[t].ret = <<"acme", 1>>
    /\ engine_count["acme"] = 1

\* C2, as claimed. For each key at most one thread is in a creation section,
\* counting get_engine, get_or_create_database and get_agent_executor together.
C2_OneCreatorSystemWide ==
    \A k \in Keys :
        Cardinality({t \in Threads : \/ InEngineCreation(t, k)
                                     \/ InProvisioning(t, k)
                                     \/ InAgentCreation(t, k)}) <= 1

\* C2, amended. For each key at most one thread is in a creation section of
\* connect_db (get_engine, get_or_create_database), and at most one in the
\* creation section of sql_agent (get_agent_executor).
C2_OneCreatorPerModule ==
    \A k \in Keys :
        /\ Cardinality({t \in Threads : InEngineCreation(t, k) \/ InProvisioning(t, k)}) <= 1
        /\ Cardinality({t \in Threads : InAgentCreation(t, k)}) <= 1

\* One thread creates the engine of "acme" while another, which wants to
\* provision "acme", is kept out by the lock.
C2_Witness ==
    \E t1, t2 \in Threads :
        /\ InEngineCreation(t1, "acme")
        /\ th[t2].pc = "gocd_lock" /\ th[t2].key = "acme" /\ Blocked(t2)

\* C4. Lock creation is race-free. In each of the three registries the lock
\* registered for a key is never replaced or removed, one Lock object is
\* ever constructed per key, and every caller's lock is the registered one.
C4_LockCreationRaceFree ==
    [][ /\ \A k \in Keys :
            /\ InRegistry(locks, k) => locks'[k] = locks[k]
            /\ InRegistry(cache_locks, k) => cache_locks'[k] = cache_locks[k]
            /\ InRegistry(upload_project_locks, k) =>
                   upload_project_locks'[k] = upload_project_locks[k]
        /\ \A L \in DOMAIN held' : L[3] = 1
        /\ \A t \in Threads :
            /\ th'[t].lk # NoLock /\ th'[t].op \in {"get_engine", "get_or_create_database"} =>
                   th'[t].lk = locks'[th'[t].db_name]
            /\ th'[t].plk # NoLock => th'[t].plk = locks'[th'[t].key]
            /\ th'[t].lk # NoLock /\ th'[t].op = "get_agent_executor" =>
                   th'[t].lk = cache_locks'[th'[t].key]
            /\ th'[t].op = "get_project_lock" =>
                   th'[t].ret = upload_project_locks'[th'[t].key]
      ]_vars

\* Two first-time callers of get_lock("acme") hold the same lock object:
\* one is inside the critical section, the other waits for it.
C4_Witness ==
    \E t1, t2 \in Threads :
        /\ t1 # t2
        /\ th[t1].pc = "ge_check" /\ th[t1].db_name = "acme"
        /\ th[t2].pc = "ge_lock" /\ th[t2].db_name = "acme"
        /\ th[t1].lk = th[t2].lk
        /\ held[th[t1].lk] = t1

\* C6. No poisoning on failure. A step in which creation fails inside
\* get_engine(K), on any attempt, or inside get_agent_executor(K), leaves no
\* cache entry for K and K's lock free; and a call that finds no entry for K
\* goes on to run the creation.
C6_NoPoisoning ==
    [][ \A t \in Threads :
            LET r == th[t]
                q == th'[t]
            IN
            /\ (r.pc = "ge_create" /\ q.pc \in {"ge_sleep", "done"} /\ q.status # "returned") =>
                   /\ ~InCache(engines', r.db_name)
                   /\ held'[r.lk] = NoThread
                   /\ q.pc = "done" => held'[locks[r.key]] # t
            /\ (r.pc = "ga_create" /\ q.pc = "done" /\ q.status # "returned") =>
                   /\ ~InCache(agent_cache', r.key)
                   /\ held'[r.lk] = NoThread
            /\ (r.pc = "ge_check" /\ q # r /\ ~InCache(engines, r.db_name)) =>
                   q.pc = "ge_create"
            /\ (r.pc = "ga_check" /\ q # r /\ ~InCache(agent_cache, r.key)) =>
                   q.pc = "ga_create"
      ]_vars

\* get_engine("acme") gave up with RetryError in one thread, and the call
\* of the other thread created and returned the engine.
C6_Witness ==
    \E t1, t2 \in Threads :
        /\ th[t1].pc = "done" /\ th[t1].op = "get_engine" /\ th[t1].key = "acme"
        /\ th[t1].status = "RetryError"
        /\ Returned(t2, "get_engine", "acme")
        /\ th[t2].ret = engines["acme"]


\* C3. Two calls get_or_create_database(P), the only requests so far, for a
\* project P whose database did not exist: when both have returned, exactly
\* one CREATE DATABASE P was issued in total and both hold the same handle.
\* No CREATE DATABASE is ever issued for a database that exists.
C3_OneCreateDatabase ==
    /\ \A t \in Threads : th[t].pc = "gocd_create" => th[t].key \notin databases
    /\ \A P \in Projects \ preexisting :
        \A t1, t2 \in Threads :
            ( /\ t1 # t2
              /\ requests = 2
              /\ Returned(t1, "get_or_create_database", P)
              /\ Returned(t2, "get_or_create_database", P) ) =>
                /\ create_stmts[P] = 1
                /\ th[t1].ret = th[t2].ret
                /\ th[t1].ret = engines[P]

\* Both calls ran the existence check, so the second entered the
\* provisioning step before the first had cached the engine: one found no
\* database and created it, the other found it.
C3_Witness ==
    \E t1, t2 \in Threads :
        /\ "acme" \notin preexisting
        /\ requests = 2
        /\ Returned(t1, "get_or_create_database", "acme")
        /\ Returned(t2, "get_or_create_database", "acme")
        /\ th[t1].exists = "no" /\ th[t2].exists = "yes"
        /\ create_stmts["acme"] = 1

\* C5, as claimed. A thread working on key K1 never waits on a per-key lock
\* held by a thread working on a different key K2.
C5_NeverWaitsOnOtherKey ==
    \A t1, t2 \in Threads :
        (Blocked(t1) /\ held[WaitsOn(t1)] = t2) => th[t1].key = th[t2].key

\* C5, amended. The only per-key locks a call for key K1 ever waits on are
\* the lock of K1 and the lock of the administrative database; it waits on
\* a thread working on a different key only for the latter.
C5_WaitsOnOwnOrAdminLock ==
    \A t1 \in Threads :
        /\ WaitsOn(t1) # NoLock => WaitsOn(t1)[2] \in {th[t1].key, DefaultDb}
        /\ \A t2 \in Threads :
            (Blocked(t1) /\ held[WaitsOn(t1)] = t2 /\ th[t1].key # th[t2].key) =>
                WaitsOn(t1)[2] = DefaultDb

\* "acme" and "globex" are provisioned at the same time: one call waits for
\* the administrative engine's lock, which the other holds.
C5_Witness ==
    \E t1, t2 \in Threads :
        /\ th[t1].op = "get_or_create_database" /\ th[t1].key = "acme"
        /\ th[t2].op = "get_or_create_database" /\ th[t2].key = "globex"
        /\ Blocked(t1) /\ held[WaitsOn(t1)] = t2
        /\ WaitsOn(t1)[2] = DefaultDb

\* C9. Idempotent provisioning. Once the engine of P is cached, no call of
\* get_or_create_database(P) is in the provisioning step (existence check,
\* CREATE DATABASE): a call made after the first has returned takes the
\* fast path, and every call that returns gives the cached handle.
C9_IdempotentProvisioning ==
    \A t \in Threads, P \in Keys :
        /\ InProvisioning(t, P) => ~InCache(engines, P)
        /\ Returned(t, "get_or_create_database", P) =>
               /\ th[t].ret = engines[P]
               /\ th[t].ret = <<P, 1>>

\* The first call created the database of "acme"; the second ran no
\* existence check and issued no CREATE DATABASE; both returned the handle.
C9_Witness ==
    \E t1, t2 \in Threads :
        /\ "acme" \notin preexisting
        /\ requests = 2
        /\ Returned(t1, "get_or_create_database", "acme")
        /\ Returned(t2, "get_or_create_database", "acme")
        /\ th[t1].exists = "no" /\ th[t2].exists = "none"
        /\ create_stmts["acme"] = 1
        /\ th[t1].ret = th[t2].ret

\* The state of project P: 0 UNKNOWN, 1 EXISTS, 2 CACHED.
Stage(eng, kn, P) == IF InCache(eng, P) THEN 2 ELSE IF P \in kn THEN 1 ELSE 0

\* C10, as claimed. Under any interleaving of get_engine and
\* get_or_create_database calls, a handle is cached for project P only
\* after database P is known to exist.
C10_CachedOnlyIfKnown ==
    \A P \in Projects : InCache(engines, P) => P \in known

\* C10, amended. A project never moves back to an earlier state, and
\* get_or_create_database(P) reaches its get_engine(P) of line 82 only
\* after its existence check found database P or its CREATE DATABASE
\* succeeded. (A direct get_engine(P) checks nothing.)
C10_StagesOnlyAdvance ==
    /\ [](\A t \in Threads :
            th[t].site = "final" => th[t].key \in known /\ th[t].key \in databases)
    /\ [][ /\ \A P \in Keys : Stage(engines', known', P) >= Stage(engines, known, P)
           /\ databases \subseteq databases'
         ]_vars

\* get_or_create_database("acme") has created the database and is creating
\* the engine at line 82.
C10_Witness ==
    \E t \in Threads :
        /\ "acme" \notin preexisting
        /\ th[t].site = "final" /\ th[t].key = "acme" /\ th[t].pc = "ge_create"
        /\ Stage(engines, known, "acme") = 1

\* C11. Cache entries are stable. Once engines[K] (agent_cache[K]) holds a
\* handle, no step of any get_engine, get_or_create_database or
\* get_agent_executor call, failing and retried attempts included, replaces
\* or removes it.
C11_CacheEntriesStable ==
    [][ \A k \in Keys :
            /\ engines[k] # NoHandle => engines'[k] = engines[k]
            /\ agent_cache[k] # NoHandle => agent_cache'[k] = agent_cache[k]
      ]_vars

\* The engine of "acme" was cached by a direct get_engine while a
\* get_or_create_database("acme") was in its provisioning step; that call's
\* own get_engine("acme") of line 82 then returned the entry it found.
C11_Witness ==
    \E t1, t2 \in Threads :
        /\ Returned(t1, "get_engine", "acme")
        /\ Returned(t2, "get_or_create_database", "acme")
        /\ th[t2].exists \in {"yes", "no"}
        /\ th[t1].ret = <<"acme", 1>> /\ th[t2].ret = <<"acme", 1>>
        /\ engines["acme"] = <<"acme", 1>>

C19_NoDisposeUnderOpenConnection ==
    \A t \in Threads : connections[t] # "detached"

\* C13. When the existence check or CREATE DATABASE raises inside
\* get_or_create_database(P): the exception is pending from that step on and
\* is the one the call ends with; the call returns no handle; when it ends,
\* P's lock is free and the engine cache has no entry for P; no step of the
\* failing call writes the engine cache. A later call that finds no entry
\* for P goes on to the provisioning step again.
C13_ProvisioningErrorPropagates ==
    [][ \A t \in Threads :
            LET r == th[t]
                q == th'[t]
            IN
            /\ ( \/ r.pc = "gocd_exists" /\ q.pc = "gocd_finally" /\ q.exists = "none"
                 \/ r.pc = "gocd_create" /\ q.pc = "gocd_finally" /\ databases' = databases ) =>
                   /\ q.pending = "SQLAlchemyError"
                   /\ engines' = engines
            /\ (r.pending # "none" /\ q # r) =>
                   /\ engines' = engines
                   /\ \/ /\ q.pc \in {"gocd_dispose", "gocd_exit"}
                         /\ q.pending = r.pending
                         /\ held'[r.plk] = t
                      \/ /\ q.pc = "done"
                         /\ q.status = r.pending
                         /\ q.ret = NoHandle
                         /\ held'[r.plk] = NoThread
                         /\ ~InCache(engines', r.key)
            /\ (r.pc = "gocd_check" /\ q # r /\ ~InCache(engines, r.key)) =>
                   q.site = "admin"
      ]_vars

\* CREATE DATABASE acme failed in one call, which ended with the error; the
\* call of the other thread, finding no engine for "acme", is in the
\* provisioning step.
C13_Witness ==
    \E t1, t2 \in Threads :
        /\ th[t1].pc = "done" /\ th[t1].op = "get_or_create_database"
        /\ th[t1].key = "acme" /\ th[t1].status = "SQLAlchemyError"
        /\ th[t1].exists = "no"
        /\ th[t2].op = "get_or_create_database" /\ th[t2].key = "acme"
        /\ th[t2].pc = "gocd_exists"
        /\ ~InCache(engines, "acme")

\* C14. The registry-wide guard is held only for the check-or-insert inside
\* get_lock. Whoever holds a module's global_lock is at one of the three
\* steps between entering and leaving `with global_lock:`, none of which
\* waits for anything; a thread that waits for a per-key lock, sleeps, or
\* works under a per-key lock outside get_lock holds no guard. So the guard
\* is always released again, and a get_lock call waiting for it goes on,
\* whatever per-key locks other threads hold or wait for.
C14_GuardOnlyInsideGetLock ==
    LET InGetLock(t) == th[t].pc \in {"gl_check", "gl_insert", "gl_return"} IN
    \A t \in Threads :
        /\ db_global_lock = t <=> (InGetLock(t) /\ ModuleOf(th[t]) = "connect_db")
        /\ agent_global_lock = t <=> (InGetLock(t) /\ ModuleOf(th[t]) = "sql_agent")
        /\ (WaitsOn(t) # NoLock \/ th[t].pc = "ge_sleep") =>
               db_global_lock # t /\ agent_global_lock # t

\* One thread waits for the lock of "acme"; the thread that holds it is
\* inside get_lock("postgres"), holding the guard.
C14_Witness ==
    \E t1, t2 \in Threads :
        /\ th[t1].pc = "gocd_lock" /\ th[t1].key = "acme" /\ Blocked(t1)
        /\ held[WaitsOn(t1)] = t2
        /\ db_global_lock = t2 /\ th[t2].pc = "gl_check"
        /\ th[t2].site = "admin"

\* C15, as claimed. Backoff growth: the delays before successive retry
\* attempts are non-decreasing, and every delay is at most RETRY_MAX.
C15_BackoffCappedAtMax ==
    \A i \in 1..Len(rt.delays) :
        /\ rt.delays[i] <= RETRY_WAIT.max
        /\ i > 1 => rt.delays[i - 1] <= rt.delays[i]

\* C15, amended. The delays before successive retry attempts are
\* non-decreasing, and every delay is at most RETRY_MAX or, when RETRY_MIN is
\* the larger of the two, equal to RETRY_MIN: at most RETRY_MAX whenever
\* RETRY_MIN <= RETRY_MAX.
C15_BackoffCappedAtMaxOrMin ==
    \A i \in 1..Len(rt.delays) :
        /\ rt.delays[i] <= Max(RETRY_WAIT.max, RETRY_WAIT.min)
        /\ RETRY_WAIT.min > RETRY_WAIT.max => rt.delays[i] = RETRY_WAIT.min
        /\ RETRY_WAIT.min <= RETRY_WAIT.max => rt.delays[i] <= RETRY_WAIT.max
        /\ i > 1 => rt.delays[i - 1] <= rt.delays[i]

\* Multiplier 2, minimum 1, maximum 3: the first delay is 2, the second
\* would be 4 and is cut to 3.
C15_Witness ==
    /\ RETRY_WAIT = [multiplier |-> 2, min |-> 1, max |-> 3]
    /\ rt.delays = <<2, 3>>
    /\ rt.sleeps = 2

\* Every thread that can take a step of connect_db eventually takes one:
\* the operating system schedules runnable threads, backend calls answer, and
\* backoff sleeps end.
SpecLive == Init /\ [][Next]_vars /\ \A t \in Threads : WF_vars(DbStep(t))

\* C18. Deadlock freedom. Every call of get_or_create_database and
\* get_engine, for any key, the administrative database's name included,
\* eventually returns or raises, holding none of the locks it acquired.
C18_EveryCallCompletes ==
    \A t \in Threads :
        [](th[t].pc \notin {"idle", "done"} =>
              <>(th[t].pc = "done" /\ \A L \in DOMAIN held : held[L] # t))

\* C20, as claimed. A thread in a retry backoff sleep holds no per-key lock.
C20_NoLockHeldInBackoff ==
    \A t \in Threads :
        th[t].pc = "ge_sleep" => \A L \in DOMAIN held : held[L] # t

\* C20, amended. Each attempt of get_engine(K) acquires K's lock at its
\* start and releases it before the backoff sleep: a sleeping thread never
\* holds the lock of the key whose engine it is creating. The one lock it
\* can hold is the project lock of an enclosing get_or_create_database,
\* which stays locked through every attempt and every sleep of the
\* get_engine(default_db) call of line 58.
C20_OnlyProjectLockHeldInBackoff ==
    \A t \in Threads :
        /\ th[t].pc = "ge_sleep" =>
               /\ th[t].lk = NoLock
               /\ held[locks[th[t].db_name]] # t
               /\ \A L \in DOMAIN held :
                      held[L] = t =>
                          /\ th[t].site = "admin"
                          /\ L = th[t].plk
                          /\ L = locks[th[t].key]
               /\ th[t].site = "admin" => held[th[t].plk] = t
        /\ th[t].pc \in {"ge_check", "ge_create"} =>
               th[t].lk = locks[th[t].db_name] /\ held[th[t].lk] = t

\* get_or_create_database("acme") sleeps between two attempts of
\* get_engine("postgres"), holding the lock of "acme"; a direct
\* get_engine("globex") sleeps holding nothing.
C20_Witness ==
    \E t1, t2 \in Threads :
        /\ th[t1].pc = "ge_sleep" /\ th[t1].site = "admin" /\ th[t1].key = "acme"
        /\ held[locks["acme"]] = t1
        /\ th[t2].pc = "ge_sleep" /\ th[t2].site = "direct" /\ th[t2].key = "globex"
        /\ \A L \in DOMAIN held : held[L] # t2

\* ------------------------------------------------------ claims: SpecRouter

\* Task h is inside `async with project_lock:` of a handler for project k,
\* suspended at one of its awaits.
InHandlerSection(h, k) == hd[h].key = k /\ hd[h].pc \in {"ud_read", "ud_parse"}

\* C16. Request-layer serialization. For every project at most one handler
\* task is inside the project's critical section, and it is the holder of
\* the project's lock; a delete_data handler runs its critical section
\* only while no handler of the same project is inside its own; a task that
\* has answered (400, 200 or 500) or waits for the lock holds no lock.
C16_HandlersSerializedPerProject ==
    /\ [](/\ \A k \in Projects :
               Cardinality({h \in Handlers : InHandlerSection(h, k)}) <= 1
          /\ \A h \in Handlers :
               /\ hd[h].pc \in {"ud_read", "ud_parse"} =>
                      /\ hd[h].lk = upload_project_locks[hd[h].key]
                      /\ held[hd[h].lk] = h
               /\ hd[h].pc \notin {"ud_read", "ud_parse"} =>
                      \A L \in DOMAIN held : held[L] # h)
    /\ [][ \A h \in Handlers :
               (hd[h].pc \in {"ud_lock", "dd_lock"} /\ hd'[h].pc # hd[h].pc) =>
                   \A g \in Handlers : ~InHandlerSection(g, hd[h].key)
         ]_vars

\* An upload for "acme" and an upload for "globex" are inside their
\* critical sections at the same time, while each project's lock is held.
C16_Witness ==
    \E h1, h2 \in Handlers :
        /\ InHandlerSection(h1, "acme") /\ hd[h1].pc = "ud_read"
        /\ InHandlerSection(h2, "globex") /\ hd[h2].pc = "ud_parse"
        /\ held[upload_project_locks["acme"]] = h1
        /\ held[upload_project_locks["globex"]] = h2

\* C17. The background work of one project (upload_to_sql, delete_data_sql)
\* never runs at the same time as another background task of the same
\* project, nor while a handler is inside that project's critical section.
C17_BackgroundWorkSerialized ==
    \A b \in bg :
        b.state = "running" =>
            /\ \A c \in bg \ {b} : c.state = "running" => c.key # b.key
            /\ \A h \in Handlers : ~InHandlerSection(h, b.key)

\* The step in which upload_data, running in task h, ends in an exception
\* raised inside its try block.
UploadFails(h) ==
    /\ hd[h].op = "upload_data"
    /\ hd[h].pc \in {"ud_lock", "ud_read", "ud_parse"}
    /\ hd'[h].pc = "done"
    /\ hd'[h].resp \notin {200, 400}

\* 'in_progress' is written in the step that leads to file.read(), and the
\* background task of a request is added only after its parse.
UploadOrder(h) ==
    /\ (hd[h].pc = "ud_lock" /\ hd'[h].pc = "ud_read") =>
           /\ hd'[h].id \in DOMAIN collection'
           /\ collection'[hd'[h].id].status = "in_progress"
    /\ \A b \in bg' \ bg :
           (b.func = "upload_to_sql" /\ b.state = "added" /\ b.req = hd[h].req) =>
               hd[h].pc = "ud_parse" /\ hd'[h].resp = 200

\* C21, as claimed. When upload_data raises inside its handler, the record
\* of the upload id ends with status 'fail', the handler answers 500 and the
\* project lock is released; 'in_progress' is written before the contents
\* are read and before the background task is added.
C21_UploadFailureMarked ==
    [][ \A h \in Handlers :
            /\ UploadFails(h) =>
                   /\ hd'[h].resp = 500
                   /\ hd'[h].id \in DOMAIN collection'
                   /\ collection'[hd'[h].id].status = "fail"
                   /\ \A L \in DOMAIN held' : held'[L] # h
            /\ UploadOrder(h)
      ]_vars

\* C21, amended. When upload_data raises inside its try block, the project
\* lock is released, no background task is added, and the except clause
\* upserts status 'fail' for the upload id and answers 500; when that
\* upsert raises as well, the collection stays as it was and the exception
\* leaves the handler without a response. 'in_progress' is written before
\* the contents are read and before the background task is added.
C21_UploadFailureMarkedIfStoreAnswers ==
    [][ \A h \in Handlers :
            /\ UploadFails(h) =>
                   /\ \A L \in DOMAIN held' : held'[L] # h
                   /\ bg' = bg
                   /\ \/ /\ hd'[h].resp = 500 /\ hd'[h].exc = "none"
                         /\ hd'[h].id \in DOMAIN collection'
                         /\ collection'[hd'[h].id].status = "fail"
                      \/ /\ hd'[h].resp = 0 /\ hd'[h].exc = "Exception"
                         /\ collection' = collection
            /\ UploadOrder(h)
      ]_vars

\* The upload of a.csv for "acme" wrote 'in_progress', then failed while
\* reading or parsing: its record has status 'fail', the answer is 500 and
\* the lock of "acme" is free.
C21_Witness ==
    \E h \in Handlers :
        /\ hd[h].op = "upload_data" /\ hd[h].pc = "done" /\ hd[h].resp = 500
        /\ hd[h].key = "acme"
        /\ hd[h].id \in DOMAIN collection
        /\ collection[hd[h].id] = [file_name |-> <<"a", "csv">>, project_id |-> "acme",
                                   file_type |-> "csv", status |-> "fail"]
        /\ held[upload_project_locks["acme"]] = NoThread

\* The step in which delete_data, running in task h, ends in an exception
\* raised inside its try block.
DeleteFails(h) ==
    /\ hd[h].op = "delete_data"
    /\ hd[h].pc = "dd_lock"
    /\ hd'[h].pc = "done"
    /\ hd'[h].resp # 200

\* The delete task of a request is added by the step that answers 200, and
\* that step leaves the document, if there is one, with status 'deleting'.
DeleteOrder(h) ==
    \A b \in bg' \ bg :
        (b.func = "delete_data_sql" /\ b.state = "added" /\ b.req = hd[h].req) =>
            /\ hd[h].pc = "dd_lock" /\ hd'[h].resp = 200
            /\ b.id \in DOMAIN collection =>
                   /\ b.id \in DOMAIN collection'
                   /\ collection'[b.id].status = "deleting"

\* C22, as claimed. delete_data sets the status to 'deleting' before it adds
\* the background delete task; when the handler raises before that, no
\* delete task is added, the document's status is 'success' afterwards and
\* the handler answers 500.
C22_DeleteFailureReverted ==
    [][ \A h \in Handlers :
            /\ DeleteFails(h) =>
                   /\ bg' = bg
                   /\ hd'[h].resp = 500
                   /\ hd[h].id \in DOMAIN collection =>
                          /\ hd[h].id \in DOMAIN collection'
                          /\ collection'[hd[h].id].status = "success"
            /\ DeleteOrder(h)
      ]_vars

\* C22, amended. delete_data sets the status to 'deleting' before it adds
\* the background delete task; when the handler raises before that, no
\* delete task is added and the lock is released, and the except clause
\* sets the status of the document of file_id, if there is one, to 'success'
\* and answers 500; when that update raises as well, the collection stays as
\* it was and the exception leaves the handler without a response.
C22_DeleteFailureRevertedIfStoreAnswers ==
    [][ \A h \in Handlers :
            /\ DeleteFails(h) =>
                   /\ bg' = bg
                   /\ \A L \in DOMAIN held' : held'[L] # h
                   /\ \/ /\ hd'[h].resp = 500 /\ hd'[h].exc = "none"
                         /\ collection' =
                                IF hd[h].id \in DOMAIN collection
                                THEN [collection EXCEPT ![hd[h].id].status = "success"]
                                ELSE collection
                      \/ /\ hd'[h].resp = 0 /\ hd'[h].exc = "Exception"
                         /\ collection' = collection
            /\ DeleteOrder(h)
      ]_vars

\* delete_data for the document of an upload that is still reading or
\* parsing its file (another project's lock was named) failed and answered
\* 500: no delete task was added, and the document's status, 'in_progress'
\* before, is 'success'.
C22_Witness ==
    \E h, g \in Handlers :
        /\ hd[h].op = "delete_data" /\ hd[h].pc = "done" /\ hd[h].resp = 500
        /\ hd[g].op = "upload_data" /\ hd[g].pc \in {"ud_read", "ud_parse"}
        /\ hd[g].id = hd[h].id
        /\ hd[h].id \in DOMAIN collection
        /\ collection[hd[h].id].status = "success"
        /\ \A b \in bg : b.func # "delete_data_sql"

\* The step in which upload_data, running in task h, returns a 400 response.
UploadRejected(h) ==
    /\ hd[h].op = "upload_data"
    /\ hd[h].pc = "ud_lock"
    /\ hd'[h].pc = "done"
    /\ hd'[h].resp = 400

\* C23. When upload_data answers 400, the file's extension is not supported
\* or a document of that file name has status 'success'; the step creates
\* and modifies no document and adds no background task, and no background
\* task belongs to the rejected request.
C23_RejectedUploadChangesNothing ==
    [][ \A h \in Handlers :
            UploadRejected(h) =>
                /\ \/ ~SupportedFormat(hd[h].file)
                   \/ \E i \in DOMAIN collection :
                          /\ collection[i].file_name = hd[h].file
                          /\ collection[i].status = "success"
                /\ collection' = collection
                /\ bg' = bg
                /\ \A b \in bg' : b.req # hd[h].req
      ]_vars

\* A second upload of a.csv, after the first one succeeded, was answered
\* 400: the only document is the first upload's, with status 'success', and
\* there is no background task.
C23_Witness ==
    \E h \in Handlers :
        /\ hd[h].op = "upload_data" /\ hd[h].pc = "done" /\ hd[h].resp = 400
        /\ hd[h].file = <<"a", "csv">>
        /\ hd[h].id \notin DOMAIN collection
        /\ \E i \in DOMAIN collection :
               /\ collection[i].file_name = <<"a", "csv">>
               /\ collection[i].status = "success"
               /\ DOMAIN collection = {i}
        /\ bg = {}

====
